---- MODULE Spec2Model ----
(***************************************************************************)
(* The Markdown chunking engine of src/chunking/chunking.py (and its twin  *)
(* src/chunking_utils.py): split_with_overlap, parse_markdown_sections,    *)
(* merge_sections_below_min_tokens and chunk_markdown.                     *)
(*                                                                         *)
(* A Python str is a sequence of one-character strings; a list is a        *)
(* sequence; a dict is a record.                                           *)
(***************************************************************************)
EXTENDS Integers, Sequences, FiniteSets, TLC

VARIABLES
    pc,          \* position of the running call
    entry,       \* the function called from outside the module
    markdown,    \* chunk_markdown: argument markdown
    min_tokens,  \* argument min_tokens
    doc_title,   \* chunk_markdown: doc_title
    sections,    \* the list of sections (mutated in place by the merge)
    sections0,   \* the list of sections as it was handed to the merge
    i,           \* merge: index of the section being visited
    merged,      \* merge: merged
    sec,         \* chunk_markdown: number of sections already chunked
    heading,     \* chunk_markdown: heading of the current section
    content,     \* chunk_markdown: content of the current section
    blocks,      \* chunk_markdown: blocks of the current section
    blk,         \* chunk_markdown: number of blocks already handled
    all_chunks,  \* chunk_markdown: all_chunks
    chunk_id,    \* chunk_markdown: chunk_id
    text,        \* split_with_overlap: argument text
    max_tokens,  \* argument max_tokens
    overlap,     \* argument overlap
    words,       \* split_with_overlap: words = text.split()
    n,           \* split_with_overlap: n = len(words)
    chunks,      \* split_with_overlap: chunks
    start,       \* split_with_overlap: start
    end,         \* split_with_overlap: end of the window built last
    ret,         \* value returned by split_with_overlap
    calls,       \* concurrent chunk_markdown calls: position, argument, result
    frames,      \* the locals of the concurrent calls, one frame for each
    pending,     \* ingestion run: the documents not yet ingested
    collection_ids  \* ingestion run: the ids handed to the collection so far

splitVars == <<text, words, n, chunks, start, end>>
mergeVars == <<sections, i, merged>>
chunkVars == <<markdown, doc_title, sec, heading, content, blocks, blk,
               all_chunks, chunk_id>>
concVars == <<calls, frames>>
ingestVars == <<pending, collection_ids>>
args == <<entry, max_tokens, overlap, min_tokens, concVars, ingestVars>>
config == <<args, sections0>>

vars == <<pc, config, chunkVars, mergeVars, splitVars, ret>>

----------------------------------------------------------------------------
(* Bounds of the model                                                     *)

MaxWords == 6        \* words of a text handed to split_with_overlap
MaxTok == 3          \* max_tokens of a direct call of split_with_overlap
MaxOverlap == 4      \* overlap of a direct call of split_with_overlap
MaxLines == 5        \* lines of a Markdown document
MaxBodyLines == 4    \* lines under the heading of a one-section document
MaxSections == 3     \* sections handed to the merge
MaxSecWords == 3     \* words of the content of such a section
MaxMin == 3          \* min_tokens of a direct call of the merge
MaxMarkerLines == 4  \* lines of a document that may hold bare ## lines
MaxConcLines == 3    \* lines of the document of the first concurrent call
MaxDocs == 3         \* documents of an ingestion run

----------------------------------------------------------------------------
(* Python str / list primitives                                            *)

Whitespace == {" ", "\n"}

Min(a, b) == IF a < b THEN a ELSE b

\* seq[a:b] for a list or str, 0-based, negative indices counted from the end
PyIndex(len, k) == IF k < 0 THEN (IF k + len < 0 THEN 0 ELSE k + len)
                   ELSE (IF k > len THEN len ELSE k)

PySlice(s, a, b) == SubSeq(s, PyIndex(Len(s), a) + 1, PyIndex(Len(s), b))

\* str.split(): the maximal runs of non-whitespace characters, in order
RECURSIVE SplitFrom(_, _, _)
SplitFrom(s, k, cur) ==
    IF k > Len(s)
    THEN (IF cur = <<>> THEN <<>> ELSE <<cur>>)
    ELSE IF s[k] \in Whitespace
         THEN (IF cur = <<>> THEN SplitFrom(s, k + 1, <<>>)
               ELSE <<cur>> \o SplitFrom(s, k + 1, <<>>))
         ELSE SplitFrom(s, k + 1, Append(cur, s[k]))

Split(s) == SplitFrom(s, 1, <<>>)

\* sep.join(parts)
RECURSIVE Join(_, _)
Join(parts, sep) ==
    IF parts = <<>> THEN <<>>
    ELSE IF Len(parts) = 1 THEN parts[1]
    ELSE parts[1] \o sep \o Join(Tail(parts), sep)

\* str.strip()
RECURSIVE LStrip(_)
LStrip(s) == IF s # <<>> /\ s[1] \in Whitespace THEN LStrip(Tail(s)) ELSE s

RECURSIVE RStrip(_)
RStrip(s) == IF s # <<>> /\ s[Len(s)] \in Whitespace
             THEN RStrip(SubSeq(s, 1, Len(s) - 1)) ELSE s

Strip(s) == RStrip(LStrip(s))

\* s.startswith(prefix)
StartsWith(s, prefix) ==
    Len(s) >= Len(prefix) /\ SubSeq(s, 1, Len(prefix)) = prefix

\* s has the characters of lit at position p (1-based)
At(s, p, lit) ==
    p >= 1 /\ p + Len(lit) - 1 <= Len(s) /\ SubSeq(s, p, p + Len(lit) - 1) = lit

\* the first position >= p whose character is in set, Len(s) + 1 if none
RECURSIVE Find(_, _, _)
Find(s, p, set) ==
    IF p > Len(s) THEN Len(s) + 1
    ELSE IF s[p] \in set THEN p ELSE Find(s, p + 1, set)

\* the first position >= p whose character is not in set, Len(s) + 1 if none
RECURSIVE Skip(_, _, _)
Skip(s, p, set) ==
    IF p > Len(s) THEN Len(s) + 1
    ELSE IF s[p] \notin set THEN p ELSE Skip(s, p + 1, set)

\* ^ under re.MULTILINE
LineStart(s, p) == p = 1 \/ s[p - 1] = "\n"

----------------------------------------------------------------------------
(* parse_markdown_sections(markdown)                                       *)

\* line 41: the {2,6} of the heading pattern
HeadingLevels_WithLevel1 == 1..6

HeadingLevels == 2..6

\* (#{2,6}) at p followed by \s: the number of # matched, 0 for no match.
\* The quantifier is greedy and gives back characters until \s+ can match.
HashCount(s, p) ==
    LET ok == {k \in HeadingLevels :
                             /\ \A j \in 0..(k - 1) : At(s, p + j, <<"#">>)
                             /\ p + k <= Len(s)
                             /\ s[p + k] \in Whitespace}
    IN IF ok = {} THEN 0 ELSE CHOOSE k \in ok : \A m \in ok : m <= k

\* the match of ^(#{2,6})\s+(.*) at p, MULTILINE: . stops at a newline,
\* \s+ runs over newlines too. stop is the position after the match.
HeadingMatch(s, p) ==
    LET k == HashCount(s, p)
        g == Skip(s, p + k, Whitespace)
        e == Find(s, g, {"\n"})
    IN [from |-> p, stop |-> e, level |-> k, group2 |-> SubSeq(s, g, e - 1)]

\* pattern.finditer(markdown): the matches, left to right, the search
\* going on where the match before stopped
FindIter(s) ==
    LET from[p \in 1..(Len(s) + 1)] ==
          IF p > Len(s) THEN <<>>
          ELSE IF LineStart(s, p) /\ HashCount(s, p) > 0
               THEN <<HeadingMatch(s, p)>> \o from[HeadingMatch(s, p).stop]
               ELSE from[p + 1]
    IN from[1]

\* line 47: where the content of section k ends (position after it)
SectionStop_EndOfDocument(s, matches, k) == Len(s) + 1

SectionStop(s, matches, k) ==
    IF k + 1 <= Len(matches) THEN matches[k + 1].from ELSE Len(s) + 1

\* lines 44-56
parse_markdown_sections(s) ==
    LET matches == FindIter(s)
    IN [k \in 1..Len(matches) |->
          [heading |-> Strip(matches[k].group2),
           level |-> matches[k].level,
           content |-> Strip(SubSeq(s, matches[k].stop,
                                    SectionStop(s, matches, k) - 1))]]

\* a call of parse_markdown_sections from outside the module
parse_markdown_sections_call ==
    /\ pc = "parse"
    /\ entry = "parse_markdown_sections"
    /\ sections' = parse_markdown_sections(markdown)
    /\ ret' = parse_markdown_sections(markdown)
    /\ pc' = "done"
    /\ UNCHANGED <<config, chunkVars, i, merged, splitVars>>

----------------------------------------------------------------------------
(* the block pattern of chunk_markdown, line 94, under re.DOTALL           *)

\* the backtick character (written ~ here)
Backtick == "~"

Fence == <<Backtick, Backtick, Backtick>>

\* the positions q >= p where lit begins
Occurrences(s, p, lit) == {q \in p..Len(s) : At(s, q, lit)}

SetMin(S) == CHOOSE x \in S : \A y \in S : x <= y
SetMax(S) == CHOOSE x \in S : \A y \in S : x >= y

\* ```.*?``` at p: the lazy .*? stops at the first closing marker.
\* The position after the match, 0 for no match.
FenceMatch(s, p) ==
    IF At(s, p, Fence) /\ Occurrences(s, p + 3, Fence) # {}
    THEN SetMin(Occurrences(s, p + 3, Fence)) + 3
    ELSE 0

\* one pass of (?:\n\|.*\|) at p: the greedy .* (any character, newlines
\* too) runs to the last | of the text. Position after it, 0 for no match.
RowMatch(s, p) ==
    IF At(s, p, <<"\n", "|">>) /\ Occurrences(s, p + 2, <<"|">>) # {}
    THEN SetMax(Occurrences(s, p + 2, <<"|">>)) + 1
    ELSE 0

\* (?:\n\|.*\|)+ at p, greedy: passes while they match
RECURSIVE RowsMatch(_, _)
RowsMatch(s, p) ==
    IF RowMatch(s, p) = 0 THEN 0
    ELSE IF RowMatch(s, RowMatch(s, p)) = 0 THEN RowMatch(s, p)
    ELSE RowsMatch(s, RowMatch(s, p))

\* \|.*\|(?:\n\|.*\|)+ at p: the first .* is greedy, so the | closing the
\* first row is the last one after which the group matches
TableMatch(s, p) ==
    LET closing == {q \in Occurrences(s, p + 1, <<"|">>) : RowsMatch(s, q + 1) # 0}
    IN IF At(s, p, <<"|">>) /\ closing # {}
       THEN RowsMatch(s, SetMax(closing) + 1)
       ELSE 0

ListMarker(s, p) ==
    At(s, p, <<"\n">>) /\ p + 2 <= Len(s) /\ s[p + 1] \in {"-", "*"}
    /\ s[p + 2] \in Whitespace

\* \n[-*]\s.*(?:\n[-*]\s.*)* at p: the greedy .* (any character, newlines
\* too) runs to the end of the text and the group matches no more
ListMatch(s, p) == IF ListMarker(s, p) THEN Len(s) + 1 ELSE 0

\* the alternation at p, the alternatives tried in order
BlockMatch(s, p) ==
    IF FenceMatch(s, p) # 0 THEN FenceMatch(s, p)
    ELSE IF TableMatch(s, p) # 0 THEN TableMatch(s, p)
    ELSE ListMatch(s, p)

\* the matches of the block pattern, left to right, the search going on
\* where the match before stopped
BlockMatches(s) ==
    LET from[p \in 1..(Len(s) + 1)] ==
          IF p > Len(s) THEN <<>>
          ELSE IF BlockMatch(s, p) # 0
               THEN <<[from |-> p, stop |-> BlockMatch(s, p)]>>
                    \o from[BlockMatch(s, p)]
               ELSE from[p + 1]
    IN from[1]

\* re.split(pattern, content) with the one capturing group: the text
\* before each match and the match, then the text after the last match
ReSplit(s) ==
    LET m == BlockMatches(s)
        before(k) == SubSeq(s, IF k = 1 THEN 1 ELSE m[k - 1].stop, m[k].from - 1)
        pieces[k \in 0..Len(m)] ==
          IF k = 0 THEN <<>>
          ELSE pieces[k - 1] \o <<before(k), SubSeq(s, m[k].from, m[k].stop - 1)>>
    IN pieces[Len(m)]
       \o <<SubSeq(s, IF m = <<>> THEN 1 ELSE m[Len(m)].stop, Len(s))>>

\* line 102
IsProtected(block) ==
    \/ StartsWith(block, Fence)
    \/ StartsWith(block, <<"|">>)
    \/ StartsWith(block, <<"-">>)
    \/ StartsWith(block, <<"*">>)

----------------------------------------------------------------------------
(* split_with_overlap(text, max_tokens, overlap)                           *)

\* line 25: what is returned for a text of at most max_tokens words
ShortReturn_Normalised(t) == <<Join(Split(t), <<" ">>)>>

ShortReturn(t) == <<t>>

\* lines 22-27: words, n, the short-text return, the loop's initial state
split_with_overlap_enter ==
    /\ pc = "split"
    /\ words' = Split(text)
    /\ n' = Len(Split(text))
    /\ IF Len(Split(text)) <= max_tokens
       THEN /\ ret' = ShortReturn(text)
            /\ pc' = "split_ret"
            /\ UNCHANGED <<chunks, start, end>>
       ELSE /\ chunks' = <<>>
            /\ start' = 0
            /\ end' = 0
            /\ ret' = <<>>
            /\ pc' = "window"
    /\ UNCHANGED <<config, chunkVars, mergeVars, text>>

\* line 35: the start of the next window
NextStart_NoOverlap(e, ov) == e

NextStart_SkipsWord(e, ov) == e - ov + 1

NextStart(e, ov) == e - ov

\* line 30: the end of the window starting at st
WindowEnd(st, mx, len) == Min(st + mx, len)

\* line 33: the window built last reaches the end of the words
AtEnd_Never(e, len) == e > len

AtEnd(e, len) == e = len

\* lines 29-36: one pass through the while loop
split_with_overlap_window ==
    /\ pc = "window"
    /\ Len(chunks) <= n          \* the list of an endless loop is cut off here
    /\ IF start < n
       THEN LET e == WindowEnd(start, max_tokens, n)
                chunk == Join(PySlice(words, start, e), <<" ">>)
            IN /\ end' = e
               /\ chunks' = Append(chunks, chunk)
               /\ IF AtEnd(e, n)
                  THEN /\ ret' = Append(chunks, chunk)
                       /\ pc' = "split_ret"
                       /\ start' = start
                  ELSE /\ start' = NextStart(e, overlap)
                       /\ UNCHANGED <<ret, pc>>
       ELSE /\ ret' = chunks
            /\ pc' = "split_ret"
            /\ UNCHANGED <<chunks, start, end>>
    /\ UNCHANGED <<config, chunkVars, mergeVars, text, words, n>>

\* the return to a caller outside the module
split_with_overlap_return ==
    /\ pc = "split_ret"
    /\ entry = "split_with_overlap"
    /\ pc' = "done"
    /\ UNCHANGED <<config, chunkVars, mergeVars, splitVars, ret>>

----------------------------------------------------------------------------
(* merge_sections_below_min_tokens(sections, min_tokens)                   *)

\* line 66: the section visited is short and has a successor
ShouldMerge_Never(secs, k, mn) == FALSE

ShouldMerge_AtOrBelow(secs, k, mn) ==
    Len(Split(secs[k + 1].content)) <= mn /\ k + 1 < Len(secs)

ShouldMerge(secs, k, mn) ==
    Len(Split(secs[k + 1].content)) < mn /\ k + 1 < Len(secs)

\* lines 68-69: section k folded into its successor, in place
MergeInto_HeadingOnly(secs, k) ==
    [secs EXCEPT
       ![k + 2].heading = secs[k + 1].heading \o <<" ", "+", " ">> \o @]

MergeInto_NoBlankLine(secs, k) ==
    [secs EXCEPT
       ![k + 2].content = secs[k + 1].content \o <<" ">> \o @,
       ![k + 2].heading = secs[k + 1].heading \o <<" ", "+", " ">> \o @]

MergeInto(secs, k) ==
    [secs EXCEPT
       ![k + 2].content = secs[k + 1].content \o <<"\n", "\n">> \o @,
       ![k + 2].heading = secs[k + 1].heading \o <<" ", "+", " ">> \o @]

\* lines 63-72: one pass through the while loop
merge_sections_below_min_tokens_step ==
    /\ pc = "merge"
    /\ i < Len(sections)
    /\ IF ShouldMerge(sections, i, min_tokens)
       THEN /\ sections' = MergeInto(sections, i)
            /\ UNCHANGED merged
       ELSE /\ merged' = Append(merged, sections[i + 1])
            /\ UNCHANGED sections
    /\ i' = i + 1
    /\ UNCHANGED <<pc, config, chunkVars, splitVars, ret>>

\* line 73, returning to a caller outside the module
merge_sections_below_min_tokens_return ==
    /\ pc = "merge"
    /\ i >= Len(sections)
    /\ entry = "merge_sections_below_min_tokens"
    /\ ret' = merged
    /\ pc' = "done"
    /\ UNCHANGED <<config, chunkVars, mergeVars, splitVars>>

----------------------------------------------------------------------------
(* chunk_markdown(markdown, max_tokens, overlap, min_tokens)               *)

UntitledDocument ==
    <<"U", "n", "t", "i", "t", "l", "e", "d", " ",
      "D", "o", "c", "u", "m", "e", "n", "t">>

\* ^##\s+(.*) at p, MULTILINE
TitleAt(s, p) ==
    LineStart(s, p) /\ At(s, p, <<"#", "#">>) /\ p + 2 <= Len(s)
    /\ s[p + 2] \in Whitespace

\* lines 79-80
DocTitle(s) ==
    LET hits == {p \in 1..Len(s) : TitleAt(s, p)}
    IN IF hits = {} THEN UntitledDocument
       ELSE LET p == SetMin(hits)
                g == Skip(s, p + 2, Whitespace)
            IN Strip(SubSeq(s, g, Find(s, g, {"\n"}) - 1))

\* lines 104-109 and 115-120: a chunk record
Chunk(title, section, id, body) ==
    [doc_title |-> title, section |-> section, chunk_id |-> id, content |-> body]

\* lines 110 and 121
NextChunkId_Stuck(id) == id

NextChunkId(id) == id + 1

\* lines 79-83 and the first lines of the merge (61-62)
chunk_markdown_parse ==
    /\ pc = "chunk_markdown"
    /\ doc_title' = DocTitle(markdown)
    /\ sections' = parse_markdown_sections(markdown)
    /\ sections0' = parse_markdown_sections(markdown)
    /\ i' = 0
    /\ merged' = <<>>
    /\ pc' = "merge"
    /\ UNCHANGED <<args, markdown, sec, heading, content, blocks, blk,
                   all_chunks, chunk_id, splitVars, ret>>

\* the running call of chunk_markdown was made from outside or by ingest_pdfs
InChunkMarkdown == entry \in {"chunk_markdown", "ingest_pdfs"}

\* lines 84-87: the merge has returned
chunk_markdown_merged ==
    /\ pc = "merge"
    /\ i >= Len(sections)
    /\ InChunkMarkdown
    /\ sections' = merged
    /\ all_chunks' = <<>>
    /\ chunk_id' = 1
    /\ sec' = 0
    /\ pc' = "sections"
    /\ UNCHANGED <<config, markdown, doc_title, heading, content, blocks, blk,
                   i, merged, splitVars, ret>>

\* lines 89-95: the next section and its blocks
chunk_markdown_section ==
    /\ pc = "sections"
    /\ sec < Len(sections)
    /\ heading' = sections[sec + 1].heading
    /\ content' = sections[sec + 1].content
    /\ blocks' = ReSplit(sections[sec + 1].content)
    /\ blk' = 0
    /\ pc' = "blocks"
    /\ UNCHANGED <<config, markdown, doc_title, sec, all_chunks, chunk_id,
                   mergeVars, splitVars, ret>>

\* lines 99-100: a block with nothing left after the strip is skipped
IsEmptyBlock_Never(block) == FALSE

IsEmptyBlock(block) == block = <<>>

\* lines 97-113: the next block: dropped when empty, one chunk when it starts
\* like a protected block, handed to split_with_overlap otherwise
chunk_markdown_block ==
    /\ pc = "blocks"
    /\ blk < Len(blocks)
    /\ LET block == Strip(blocks[blk + 1])
       IN IF IsEmptyBlock(block)
          THEN /\ blk' = blk + 1
               /\ UNCHANGED <<pc, all_chunks, chunk_id, text>>
          ELSE IF IsProtected(block)
          THEN /\ all_chunks' =
                    Append(all_chunks, Chunk(doc_title, heading, chunk_id, block))
               /\ chunk_id' = NextChunkId(chunk_id)
               /\ blk' = blk + 1
               /\ UNCHANGED <<pc, text>>
          ELSE /\ text' = block
               /\ pc' = "split"
               /\ UNCHANGED <<blk, all_chunks, chunk_id>>
    /\ UNCHANGED <<config, markdown, doc_title, sec, heading, content, blocks,
                   mergeVars, words, n, chunks, start, end, ret>>

\* lines 114-121: one chunk for each window returned
WindowChunks_FirstOnly(title, section, id, subs) ==
    IF subs = <<>> THEN <<>> ELSE <<Chunk(title, section, id, subs[1])>>

RECURSIVE WindowChunks(_, _, _, _)
WindowChunks(title, section, id, subs) ==
    IF subs = <<>> THEN <<>>
    ELSE <<Chunk(title, section, id, subs[1])>>
         \o WindowChunks(title, section, NextChunkId(id), Tail(subs))

RECURSIVE IdAfter(_, _)
IdAfter(id, k) == IF k = 0 THEN id ELSE IdAfter(NextChunkId(id), k - 1)

chunk_markdown_windows ==
    /\ pc = "split_ret"
    /\ InChunkMarkdown
    /\ all_chunks' = all_chunks \o WindowChunks(doc_title, heading, chunk_id, ret)
    /\ chunk_id' = IdAfter(chunk_id, Len(ret))
    /\ blk' = blk + 1
    /\ pc' = "blocks"
    /\ UNCHANGED <<config, markdown, doc_title, sec, heading, content, blocks,
                   mergeVars, splitVars, ret>>

\* the for loop over the blocks is exhausted
chunk_markdown_blocks_end ==
    /\ pc = "blocks"
    /\ blk >= Len(blocks)
    /\ sec' = sec + 1
    /\ pc' = "sections"
    /\ UNCHANGED <<config, markdown, doc_title, heading, content, blocks, blk,
                   all_chunks, chunk_id, mergeVars, splitVars, ret>>

\* line 123
chunk_markdown_return ==
    /\ pc = "sections"
    /\ sec >= Len(sections)
    /\ ret' = all_chunks
    /\ pc' = IF entry = "ingest_pdfs" THEN "add" ELSE "done"
    /\ UNCHANGED <<config, chunkVars, mergeVars, splitVars>>

----------------------------------------------------------------------------
(* The functions as values: what a call returns, for 0 <= overlap <        *)
(* max_tokens                                                              *)

\* lines 28-36: the windows from start st on
RECURSIVE Windows(_, _, _, _)
Windows(ws, st, mx, ov) ==
    LET e == WindowEnd(st, mx, Len(ws))
        chunk == Join(PySlice(ws, st, e), <<" ">>)
    IN IF AtEnd(e, Len(ws)) THEN <<chunk>>
       ELSE <<chunk>> \o Windows(ws, NextStart(e, ov), mx, ov)

\* lines 20-36
SplitWithOverlap(t, mx, ov) ==
    IF Len(Split(t)) <= mx THEN ShortReturn(t) ELSE Windows(Split(t), 0, mx, ov)

\* lines 59-73
MergeSections(secs, mn) ==
    LET pass[k \in 0..Len(secs)] ==
          IF k = 0 THEN [sections |-> secs, merged |-> <<>>]
          ELSE LET before == pass[k - 1]
               IN IF ShouldMerge(before.sections, k - 1, mn)
                  THEN [sections |-> MergeInto(before.sections, k - 1),
                        merged |-> before.merged]
                  ELSE [sections |-> before.sections,
                        merged |-> Append(before.merged, before.sections[k])]
    IN pass[Len(secs)].merged

\* lines 97-121: the contents of the chunks of one block
BlockContents(raw, mx, ov) ==
    LET block == Strip(raw)
    IN IF IsEmptyBlock(block) THEN <<>>
       ELSE IF IsProtected(block) THEN <<block>>
       ELSE SplitWithOverlap(block, mx, ov)

\* lines 89-121: section heading and content of every chunk, in order
SectionContents(section, mx, ov) ==
    LET bs == ReSplit(section.content)
        upto[k \in 0..Len(bs)] ==
          IF k = 0 THEN <<>>
          ELSE upto[k - 1] \o
               [j \in 1..Len(BlockContents(bs[k], mx, ov)) |->
                  [section |-> section.heading,
                   content |-> BlockContents(bs[k], mx, ov)[j]]]
    IN upto[Len(bs)]

\* lines 76-123
ChunkMarkdown(md, mx, ov, mn) ==
    LET secs == MergeSections(parse_markdown_sections(md), mn)
        upto[k \in 0..Len(secs)] ==
          IF k = 0 THEN <<>>
          ELSE upto[k - 1] \o SectionContents(secs[k], mx, ov)
        found == upto[Len(secs)]
    IN [k \in 1..Len(found) |->
          Chunk(DocTitle(md), found[k].section, IdAfter(1, k - 1), found[k].content)]

----------------------------------------------------------------------------
(* chunk_markdown calls running side by side. The module holds no state    *)
(* of its own: everything a call writes is a local of that call, kept here *)
(* in the call's frame.                                                    *)

Calls == {1, 2}

\* the frame holding the locals of call c
FrameOf_Shared(c) == 1

FrameOf(c) == c

NewFrame ==
    [doc_title |-> <<>>, sections |-> <<>>, i |-> 0, merged |-> <<>>,
     sec |-> 0, heading |-> <<>>, blocks |-> <<>>, blk |-> 0,
     all_chunks |-> <<>>, chunk_id |-> 1]

Frame(c) == frames[FrameOf(c)]

\* call c is at position p / moves to position p
CallAt(c, p) == calls[c].pc = p

CallTo(c, p) == calls' = [calls EXCEPT ![c].pc = p]

\* the frame of call c becomes f
FrameBecomes(c, f) == frames' = [frames EXCEPT ![FrameOf(c)] = f]

seqVars == <<pc, entry, max_tokens, overlap, min_tokens, sections0, ingestVars,
             chunkVars, mergeVars, splitVars, ret>>

\* lines 79-83 and 61-62
conc_parse(c) ==
    /\ CallAt(c, "chunk_markdown")
    /\ FrameBecomes(c, [Frame(c) EXCEPT
                          !.doc_title = DocTitle(calls[c].markdown),
                          !.sections = parse_markdown_sections(calls[c].markdown),
                          !.i = 0,
                          !.merged = <<>>])
    /\ CallTo(c, "merge")
    /\ UNCHANGED seqVars

\* lines 63-72
conc_merge_step(c) ==
    /\ CallAt(c, "merge")
    /\ Frame(c).i < Len(Frame(c).sections)
    /\ LET f == Frame(c)
       IN IF ShouldMerge(f.sections, f.i, min_tokens)
          THEN FrameBecomes(c, [f EXCEPT !.sections = MergeInto(f.sections, f.i),
                                         !.i = f.i + 1])
          ELSE FrameBecomes(c, [f EXCEPT !.merged = Append(f.merged,
                                                           f.sections[f.i + 1]),
                                         !.i = f.i + 1])
    /\ UNCHANGED <<calls, seqVars>>

\* lines 73 and 84-87
conc_merged(c) ==
    /\ CallAt(c, "merge")
    /\ Frame(c).i >= Len(Frame(c).sections)
    /\ FrameBecomes(c, [Frame(c) EXCEPT !.sections = Frame(c).merged,
                                        !.all_chunks = <<>>,
                                        !.chunk_id = 1,
                                        !.sec = 0])
    /\ CallTo(c, "sections")
    /\ UNCHANGED seqVars

\* lines 89-95
conc_section(c) ==
    /\ CallAt(c, "sections")
    /\ Frame(c).sec < Len(Frame(c).sections)
    /\ LET f == Frame(c)
       IN FrameBecomes(c, [f EXCEPT
                             !.heading = f.sections[f.sec + 1].heading,
                             !.blocks = ReSplit(f.sections[f.sec + 1].content),
                             !.blk = 0])
    /\ CallTo(c, "blocks")
    /\ UNCHANGED seqVars

\* lines 97-121, the call of split_with_overlap included
conc_block(c) ==
    /\ CallAt(c, "blocks")
    /\ Frame(c).blk < Len(Frame(c).blocks)
    /\ LET f == Frame(c)
           block == Strip(f.blocks[f.blk + 1])
           subs == SplitWithOverlap(block, max_tokens, overlap)
       IN IF IsEmptyBlock(block)
          THEN FrameBecomes(c, [f EXCEPT !.blk = f.blk + 1])
          ELSE IF IsProtected(block)
          THEN FrameBecomes(c, [f EXCEPT
                 !.all_chunks = Append(f.all_chunks,
                                       Chunk(f.doc_title, f.heading, f.chunk_id, block)),
                 !.chunk_id = NextChunkId(f.chunk_id),
                 !.blk = f.blk + 1])
          ELSE FrameBecomes(c, [f EXCEPT
                 !.all_chunks = f.all_chunks
                                \o WindowChunks(f.doc_title, f.heading, f.chunk_id, subs),
                 !.chunk_id = IdAfter(f.chunk_id, Len(subs)),
                 !.blk = f.blk + 1])
    /\ UNCHANGED <<calls, seqVars>>

\* the for loop over the blocks is exhausted
conc_blocks_end(c) ==
    /\ CallAt(c, "blocks")
    /\ Frame(c).blk >= Len(Frame(c).blocks)
    /\ FrameBecomes(c, [Frame(c) EXCEPT !.sec = Frame(c).sec + 1])
    /\ CallTo(c, "sections")
    /\ UNCHANGED seqVars

\* line 123
conc_return(c) ==
    /\ CallAt(c, "sections")
    /\ Frame(c).sec >= Len(Frame(c).sections)
    /\ calls' = [calls EXCEPT ![c].pc = "done", ![c].ret = Frame(c).all_chunks]
    /\ UNCHANGED <<frames, seqVars>>

----------------------------------------------------------------------------
(* An ingestion run: ingest_pdfs (ingest_urls has the same loop) chunks    *)
(* one document after the other and hands the chunks of each to            *)
(* add_chunks_to_vectorstore, all into the one collection of the module.   *)
(* pending holds the normalised Markdown of the documents still to come,   *)
(* the empty string for a document whose conversion failed.                *)

Digits == <<"0", "1", "2", "3", "4", "5", "6", "7", "8", "9">>

\* str(k) of an int k >= 0
RECURSIVE Str(_)
Str(k) ==
    IF k < 10 THEN <<Digits[k + 1]>>
    ELSE Str(k \div 10) \o <<Digits[(k % 10) + 1]>>

\* chroma_store.py line 13
IdsOf(cs) == [k \in 1..Len(cs) |-> Str(cs[k].chunk_id)]

\* ingest_pdfs lines 53-56: the next document has Markdown and is handed to
\* chunk_markdown
ingest_document ==
    /\ pc = "ingest"
    /\ pending # <<>>
    /\ Head(pending) # <<>>
    /\ markdown' = Head(pending)
    /\ pc' = "chunk_markdown"
    /\ UNCHANGED <<config, doc_title, sec, heading, content, blocks, blk,
                   all_chunks, chunk_id, mergeVars, splitVars, ret>>

\* ingest_pdfs line 57 with chroma_store.py lines 10-25: the ids of the
\* chunks are handed to the collection (none for an empty list)
ingest_add ==
    /\ pc = "add"
    /\ collection_ids' = collection_ids \o IdsOf(ret)
    /\ pending' = Tail(pending)
    /\ pc' = "ingest"
    /\ UNCHANGED <<entry, max_tokens, overlap, min_tokens, sections0, concVars,
                   chunkVars, mergeVars, splitVars, ret>>

\* chroma_store.py lines 20-23: the embeddings could not be computed and
\* nothing is saved
ingest_add_no_embeddings ==
    /\ pc = "add"
    /\ ret # <<>>
    /\ pending' = Tail(pending)
    /\ pc' = "ingest"
    /\ UNCHANGED <<collection_ids, entry, max_tokens, overlap, min_tokens,
                   sections0, concVars, chunkVars, mergeVars, splitVars, ret>>

\* ingest_pdfs lines 54 and 58-59: no Markdown for this document
ingest_document_failed ==
    /\ pc = "ingest"
    /\ pending # <<>>
    /\ Head(pending) = <<>>
    /\ pending' = Tail(pending)
    /\ UNCHANGED <<pc, collection_ids, entry, max_tokens, overlap, min_tokens,
                   sections0, concVars, chunkVars, mergeVars, splitVars, ret>>

\* the for loop over the documents is exhausted
ingest_return ==
    /\ pc = "ingest"
    /\ pending = <<>>
    /\ pc' = "done"
    /\ UNCHANGED <<config, chunkVars, mergeVars, splitVars, ret>>

----------------------------------------------------------------------------
(* Texts handed to split_with_overlap                                      *)

Letters == <<"a", "b", "c", "d", "e", "f", "g", "h">>

\* the text of w one-letter words a, b, c, ... separated by sep, padded by pad
RECURSIVE WordsText(_, _, _)
WordsText(w, k, sep) ==
    IF k > w THEN <<>>
    ELSE IF k = w THEN <<Letters[k]>>
    ELSE <<Letters[k]>> \o sep \o WordsText(w, k + 1, sep)

Separators == {<<" ">>, <<" ", " ">>, <<"\n">>}
Pads == {<<>>, <<" ">>}

Texts == {pad \o WordsText(w, 1, sep) \o pad :
            w \in 0..MaxWords, sep \in Separators, pad \in Pads}

\* no concurrent calls and no ingestion run
NoCalls == calls = <<>> /\ frames = <<>>

NoIngest == pending = <<>> /\ collection_ids = <<>>

\* the locals of a function not yet called
IdleSplit ==
    /\ words = <<>> /\ n = 0 /\ chunks = <<>> /\ start = 0 /\ end = 0

IdleMerge == i = 0 /\ merged = <<>>

IdleChunk ==
    /\ markdown = <<>> /\ doc_title = <<>> /\ sec = 0 /\ heading = <<>>
    /\ content = <<>> /\ blocks = <<>> /\ blk = 0 /\ all_chunks = <<>>
    /\ chunk_id = 1

InitSplit ==
    /\ pc = "split"
    /\ entry = "split_with_overlap"
    /\ text \in Texts
    /\ max_tokens \in 1..MaxTok
    /\ overlap \in 0..MaxOverlap
    /\ min_tokens = 0
    /\ sections = <<>>
    /\ sections0 = <<>>
    /\ IdleChunk /\ IdleMerge /\ IdleSplit
    /\ NoCalls /\ NoIngest
    /\ ret = <<>>

NextSplit ==
    \/ split_with_overlap_enter
    \/ split_with_overlap_window
    \/ split_with_overlap_return

SpecSplit == InitSplit /\ [][NextSplit]_vars

\* a running call keeps running: the interpreter executes the next statement
SpecSplitFair == SpecSplit /\ WF_vars(NextSplit)


----------------------------------------------------------------------------
(* Section lists handed to merge_sections_below_min_tokens                 *)

\* the content of section j with w words: the words "ja", "jb", ...
RECURSIVE SectionWords(_, _, _)
SectionWords(j, w, k) ==
    IF k > w THEN <<>>
    ELSE <<<<Letters[j], Letters[k]>>>> \o SectionWords(j, w, k + 1)

SectionOf(j, w) ==
    [heading |-> <<Letters[j]>>, level |-> 2,
     content |-> Join(SectionWords(j, w, 1), <<" ">>)]

SectionLists ==
    UNION {{[j \in 1..len |-> SectionOf(j, f[j])] : f \in [1..len -> 0..MaxSecWords]} :
             len \in 0..MaxSections}

InitMerge ==
    /\ pc = "merge"
    /\ entry = "merge_sections_below_min_tokens"
    /\ sections \in SectionLists
    /\ sections0 = sections
    /\ min_tokens \in 0..MaxMin
    /\ max_tokens = 1
    /\ overlap = 0
    /\ text = <<>>
    /\ IdleChunk /\ IdleMerge /\ IdleSplit
    /\ NoCalls /\ NoIngest
    /\ ret = <<>>

NextMerge ==
    \/ merge_sections_below_min_tokens_step
    \/ merge_sections_below_min_tokens_return

SpecMerge == InitMerge /\ [][NextMerge]_vars

----------------------------------------------------------------------------
(* Markdown documents handed to chunk_markdown                             *)

HeadingA == <<"#", "#", " ", "A">>
HeadingB == <<"#", "#", "#", " ", "B">>
TitleT == <<"#", " ", "T">>
Prose == <<"a", " ", "b", " ", "c">>
ListItem == <<"-", " ", "i">>
TableRow == <<"|", "x", "|">>
FenceLine == Fence
Blank == <<>>

Marker == <<"#", "#">>

DocLines == {HeadingA, HeadingB, TitleT, Prose, ListItem, Blank}
ParseLines == {HeadingA, HeadingB, Marker, TitleT, Prose, Blank}
BodyLines == {Prose, ListItem, TableRow, FenceLine, Blank}
MarkerLines == {HeadingA, HeadingB, Marker, TitleT, Prose, Blank}

\* the documents of at most max lines, each line one of lines
Documents(lines, max) ==
    UNION {{Join(f, <<"\n">>) : f \in [1..len -> lines]} : len \in 0..max}

\* the configurations chunk_markdown is run with
Configs == {[max_tokens |-> 2, overlap |-> 1, min_tokens |-> 3]}

BlockConfigs ==
    {[max_tokens |-> 2, overlap |-> 1, min_tokens |-> 0],
     [max_tokens |-> 2, overlap |-> 0, min_tokens |-> 3]}

InitChunk(docs, configs) ==
    /\ pc = "chunk_markdown"
    /\ entry = "chunk_markdown"
    /\ markdown \in docs
    /\ \E c \in configs :
         /\ max_tokens = c.max_tokens
         /\ overlap = c.overlap
         /\ min_tokens = c.min_tokens
    /\ doc_title = <<>> /\ sec = 0 /\ heading = <<>> /\ content = <<>>
    /\ blocks = <<>> /\ blk = 0 /\ all_chunks = <<>> /\ chunk_id = 1
    /\ sections = <<>>
    /\ sections0 = <<>>
    /\ text = <<>>
    /\ IdleMerge /\ IdleSplit
    /\ NoCalls /\ NoIngest
    /\ ret = <<>>

Init == InitChunk(Documents(DocLines, MaxLines), Configs)

\* a document of one section: the heading and at most MaxBodyLines lines
InitBlocks ==
    InitChunk({HeadingA \o <<"\n">> \o body :
                 body \in Documents(BodyLines, MaxBodyLines)}, BlockConfigs)

\* a direct call of parse_markdown_sections
InitParse ==
    /\ pc = "parse"
    /\ entry = "parse_markdown_sections"
    /\ markdown \in Documents(ParseLines, MaxLines)
    /\ max_tokens = 1 /\ overlap = 0 /\ min_tokens = 0
    /\ doc_title = <<>> /\ sec = 0 /\ heading = <<>> /\ content = <<>>
    /\ blocks = <<>> /\ blk = 0 /\ all_chunks = <<>> /\ chunk_id = 1
    /\ sections = <<>>
    /\ sections0 = <<>>
    /\ text = <<>>
    /\ IdleMerge /\ IdleSplit
    /\ NoCalls /\ NoIngest
    /\ ret = <<>>

NextParse == parse_markdown_sections_call

SpecParse == InitParse /\ [][NextParse]_vars

Next ==
    \/ chunk_markdown_parse
    \/ merge_sections_below_min_tokens_step
    \/ chunk_markdown_merged
    \/ chunk_markdown_section
    \/ chunk_markdown_block
    \/ split_with_overlap_enter
    \/ split_with_overlap_window
    \/ chunk_markdown_windows
    \/ chunk_markdown_blocks_end
    \/ chunk_markdown_return

Spec == Init /\ [][Next]_vars

SpecBlocks == InitBlocks /\ [][Next]_vars

\* documents in which a ## may stand alone on its line
InitMarkers == InitChunk(Documents(MarkerLines, MaxMarkerLines), Configs)

SpecMarkers == InitMarkers /\ [][Next]_vars

\* two calls on different documents
ConcLines == {HeadingA, HeadingB, Prose, ListItem}

OtherDocuments ==
    {Join(<<HeadingA, HeadingB, Prose>>, <<"\n">>),
     Join(<<HeadingB, Prose, ListItem, HeadingA, Prose>>, <<"\n">>)}

InitConc ==
    /\ pc = "idle"
    /\ entry = "chunk_markdown"
    /\ \E c \in Configs :
         /\ max_tokens = c.max_tokens
         /\ overlap = c.overlap
         /\ min_tokens = c.min_tokens
    /\ \E d1 \in Documents(ConcLines, MaxConcLines), d2 \in OtherDocuments :
         /\ d1 # d2
         /\ calls = [c \in Calls |->
                       [pc |-> "chunk_markdown",
                        markdown |-> IF c = 1 THEN d1 ELSE d2,
                        ret |-> <<>>]]
    /\ frames = [c \in Calls |-> NewFrame]
    /\ sections = <<>>
    /\ sections0 = <<>>
    /\ text = <<>>
    /\ IdleChunk /\ IdleMerge /\ IdleSplit
    /\ NoIngest
    /\ ret = <<>>

NextConc ==
    \E c \in Calls :
        \/ conc_parse(c)
        \/ conc_merge_step(c)
        \/ conc_merged(c)
        \/ conc_section(c)
        \/ conc_block(c)
        \/ conc_blocks_end(c)
        \/ conc_return(c)

SpecConc == InitConc /\ [][NextConc]_vars

\* an ingestion run over at most MaxDocs documents
IngestDocuments ==
    {<<>>,
     TitleT,
     Join(<<HeadingA, Prose>>, <<"\n">>),
     Join(<<HeadingB, ListItem>>, <<"\n">>),
     Join(<<HeadingA, Prose, HeadingB, ListItem, Prose>>, <<"\n">>)}

InitIngest ==
    /\ pc = "ingest"
    /\ entry = "ingest_pdfs"
    /\ \E c \in Configs :
         /\ max_tokens = c.max_tokens
         /\ overlap = c.overlap
         /\ min_tokens = c.min_tokens
    /\ pending \in UNION {[1..len -> IngestDocuments] : len \in 0..MaxDocs}
    /\ collection_ids = <<>>
    /\ sections = <<>>
    /\ sections0 = <<>>
    /\ text = <<>>
    /\ IdleChunk /\ IdleMerge /\ IdleSplit
    /\ NoCalls
    /\ ret = <<>>

NextIngest ==
    \/ ingest_document
    \/ ingest_document_failed
    \/ chunk_markdown_parse
    \/ merge_sections_below_min_tokens_step
    \/ chunk_markdown_merged
    \/ chunk_markdown_section
    \/ chunk_markdown_block
    \/ split_with_overlap_enter
    \/ split_with_overlap_window
    \/ chunk_markdown_windows
    \/ chunk_markdown_blocks_end
    \/ chunk_markdown_return
    \/ ingest_add
    \/ ingest_add_no_embeddings
    \/ ingest_return

SpecIngest == InitIngest /\ [][NextIngest]_vars

----------------------------------------------------------------------------
(* Properties of split_with_overlap                                        *)

ValidConfig == 0 <= overlap /\ overlap < max_tokens

CeilDiv(a, b) == (a + b - 1) \div b

Last(s) == s[Len(s)]

\* the words of the windows: the first whole, the later ones without their
\* first ov words
RECURSIVE Rejoin(_, _, _)
Rejoin(windows, k, ov) ==
    IF k > Len(windows) THEN <<>>
    ELSE LET w == Split(windows[k])
         IN (IF k = 1 THEN w ELSE SubSeq(w, ov + 1, Len(w)))
            \o Rejoin(windows, k + 1, ov)

\* C1: a call with overlap >= max_tokens on a text of more than max_tokens
\* words is rejected before the windowing loop is entered: the loop never
\* runs with overlap >= max_tokens.
C1_InvalidOverlapRejected == pc = "window" => overlap < max_tokens

\* the sections handed to the merge: three of them, the first two short,
\* the third long enough
WordCount(s) == Len(Split(s))

ShortShortLong ==
    /\ Len(sections0) = 3
    /\ WordCount(sections0[1].content) < min_tokens
    /\ WordCount(sections0[2].content) < min_tokens
    /\ WordCount(sections0[3].content) >= min_tokens

Plus == <<" ", "+", " ">>
BlankLine == <<"\n", "\n">>

\* the section "A + B": B after it has absorbed A
MergedAB ==
    [heading |-> sections0[1].heading \o Plus \o sections0[2].heading,
     level |-> sections0[2].level,
     content |-> sections0[1].content \o BlankLine \o sections0[2].content]

\* the section "A + B + C": C after it has absorbed "A + B"
MergedABC ==
    [heading |-> MergedAB.heading \o Plus \o sections0[3].heading,
     level |-> sections0[3].level,
     content |-> MergedAB.content \o BlankLine \o sections0[3].content]

\* C2 as stated: the section that absorbed its short predecessor is emitted
\* as it is, B's shortness triggering no second merge: (A, B, C) with A and
\* B below min_tokens and C at or above it gives the two sections "A + B"
\* and C.
C2_SinglePassNoSecondMerge ==
    (pc = "done" /\ ShortShortLong) => ret = <<MergedAB, sections0[3]>>

\* C2 amended: the section that absorbed its short predecessor is visited
\* next with its combined content; still short, it is folded forward too
\* and (A, B, C) gives the one section "A + B + C" whose content is A,
\* blank line, B, blank line, C; no longer short, it is emitted and C
\* follows unchanged.
C2_MergeCascades ==
    (pc = "done" /\ ShortShortLong) =>
        ret = IF WordCount(MergedAB.content) < min_tokens
              THEN <<MergedABC>>
              ELSE <<MergedAB, sections0[3]>>

C2_Witness ==
    /\ pc = "done" /\ ShortShortLong
    /\ WordCount(sections0[1].content) > 0
    /\ WordCount(sections0[2].content) > 0
    /\ Len(ret) = 1

\* the lines of a text
Lines(s) ==
    LET from[p \in 1..(Len(s) + 1)] ==
          LET e == Find(s, p, {"\n"})
          IN IF e > Len(s) THEN <<SubSeq(s, p, Len(s))>>
             ELSE <<SubSeq(s, p, e - 1)>> \o from[e + 1]
    IN from[1]

IsTableRow(l) == Len(l) >= 2 /\ l[1] = "|" /\ l[Len(l)] = "|"
IsListItem(l) == Len(l) >= 2 /\ l[1] \in {"-", "*"} /\ l[2] \in Whitespace
IsFenceLine(l) == StartsWith(LStrip(l), Fence)

\* a line that is neither blank nor a table row, a list item or a fence marker
IsProseLine(l) ==
    Strip(l) # <<>> /\ ~IsTableRow(l) /\ ~IsListItem(l) /\ ~IsFenceLine(l)

\* some line of the text is prose outside every fenced span (a span left
\* open runs to the end of the text)
HasProse(s) ==
    LET ls == Lines(s)
        open[k \in 0..Len(ls)] ==
          IF k = 0 THEN FALSE
          ELSE IF IsFenceLine(ls[k]) THEN ~open[k - 1] ELSE open[k - 1]
    IN \E k \in 1..Len(ls) : IsProseLine(ls[k]) /\ ~open[k - 1]

\* C3: every chunk that carries prose (text outside fenced spans, table rows
\* and list items) has at most max_tokens words.
C3_ProseAtMostMaxTokens ==
    \A k \in 1..Len(all_chunks) :
        HasProse(all_chunks[k].content) =>
            WordCount(all_chunks[k].content) <= max_tokens

\* the terminated fenced blocks of a text, left to right
FencedBlocks(s) ==
    LET from[p \in 1..(Len(s) + 1)] ==
          IF p > Len(s) THEN <<>>
          ELSE IF At(s, p, Fence)
               THEN (IF Occurrences(s, p + 3, Fence) = {} THEN <<>>
                     ELSE LET q == SetMin(Occurrences(s, p + 3, Fence))
                          IN <<SubSeq(s, p, q + 2)>> \o from[q + 3])
               ELSE from[p + 1]
    IN from[1]

\* how many elements of seq have the value v
Count(seq, v) == Cardinality({k \in 1..Len(seq) : seq[k] = v})

ChunkContents == [k \in 1..Len(all_chunks) |-> all_chunks[k].content]

\* C4: every terminated fenced block of the section content is the content
\* of exactly one chunk, whatever surrounds it.
C4_FenceIsOneChunk ==
    (pc = "done" /\ Len(sections0) = 1) =>
        LET fb == FencedBlocks(sections0[1].content)
        IN \A j \in 1..Len(fb) : Count(ChunkContents, fb[j]) = Count(fb, fb[j])

\* C5: in a section of prose lines and table rows, a run of one or more
\* table rows with a prose line before and after it is the content of
\* exactly one chunk.
C5_TableRunIsOneChunk ==
    (pc = "done" /\ Len(sections0) = 1) =>
        LET ls == Lines(sections0[1].content)
        IN \A a \in 2..(Len(ls) - 1) : \A b \in a..(Len(ls) - 1) :
             (/\ \A k \in a..b : IsTableRow(ls[k])
              /\ IsProseLine(ls[a - 1]) /\ IsProseLine(ls[b + 1])
              /\ \A k \in 1..Len(ls) : IsProseLine(ls[k]) \/ IsTableRow(ls[k]))
             => Count(ChunkContents, Join(SubSeq(ls, a, b), <<"\n">>)) = 1

\* the words of the contents of the sections, in order
SectionWordsOf(secs) ==
    LET upto[k \in 0..Len(secs)] ==
          IF k = 0 THEN <<>> ELSE upto[k - 1] \o Split(secs[k].content)
    IN upto[Len(secs)]

\* a line that is 2 to 6 # and then a space and some text
IsHeadingLine(l) ==
    \E k \in 2..6 :
        /\ Len(l) > k
        /\ \A j \in 1..k : l[j] = "#"
        /\ l[k + 1] \in Whitespace
        /\ Strip(SubSeq(l, k + 1, Len(l))) # <<>>

\* a line that is 2 to 6 # and then nothing but spaces
IsMarkerLine(l) ==
    \E k \in 2..6 :
        /\ Len(l) >= k
        /\ \A j \in 1..k : l[j] = "#"
        /\ Strip(SubSeq(l, k + 1, Len(l))) = <<>>

\* the words of the lines that are not heading lines
BodyWords(ls) ==
    LET upto[k \in 0..Len(ls)] ==
          IF k = 0 THEN <<>>
          ELSE IF IsHeadingLine(ls[k]) THEN upto[k - 1]
          ELSE upto[k - 1] \o Split(ls[k])
    IN upto[Len(ls)]

\* C6 as stated: the contents of the sections, concatenated, are the whole
\* document without its heading lines, the text before the first heading
\* included.
C6_SectionsCoverDocument ==
    pc = "done" => SectionWordsOf(ret) = BodyWords(Lines(markdown))

\* The document read line by line. A heading begins at a heading line, or
\* at a marker line that a character follows; the heading then runs over
\* the blank lines after the marker and takes the next line with text.
\* mode is "before" up to the first heading, "marker" while a heading begun
\* by a marker line has no text yet, "body" otherwise.
LineScan(ls) ==
    LET lastHasNewline(k) ==
          k < Len(ls) \/ \E j \in 1..Len(ls[k]) : ls[k][j] \in Whitespace
        upto[k \in 0..Len(ls)] ==
          IF k = 0 THEN [mode |-> "before", out |-> <<>>]
          ELSE LET prev == upto[k - 1]
               IN IF prev.mode = "marker"
                  THEN (IF Strip(ls[k]) = <<>> THEN prev
                        ELSE [mode |-> "body", out |-> prev.out])
                  ELSE IF IsHeadingLine(ls[k])
                  THEN [mode |-> "body", out |-> prev.out]
                  ELSE IF IsMarkerLine(ls[k]) /\ lastHasNewline(k)
                  THEN [mode |-> "marker", out |-> prev.out]
                  ELSE IF prev.mode = "before" THEN prev
                  ELSE [mode |-> "body", out |-> prev.out \o Split(ls[k])]
    IN upto[Len(ls)].out

\* C6 amended: the contents of the sections, concatenated, are the document
\* from its first level 2-6 heading on without the headings (a heading whose
\* marker line has no text takes the next line with text); the text before
\* the first heading is in no section.
C6_SectionsCoverFromFirstHeading ==
    pc = "done" => SectionWordsOf(ret) = LineScan(Lines(markdown))

C6_Witness ==
    /\ pc = "done"
    /\ Len(ret) >= 2
    /\ \A k \in 1..Len(ret) : ret[k].content # <<>>
    /\ Len(BodyWords(Lines(markdown))) > Len(SectionWordsOf(ret))

\* C7: the chunk_id values of the chunks emitted are 1, 2, ..., N in
\* emission order, across sections and blocks.
C7_ChunkIdsSequential ==
    /\ \A k \in 1..Len(all_chunks) : all_chunks[k].chunk_id = k
    /\ pc = "done" =>
          (ret = all_chunks /\ \A k \in 1..Len(ret) : ret[k].chunk_id = k)

C7_Witness ==
    /\ pc = "done"
    /\ Len(ret) >= 4
    /\ \E j, k \in 1..Len(ret) :
          /\ ret[j].section # ret[k].section
          /\ IsListItem(ret[j].content)
          /\ WordCount(ret[k].content) = max_tokens

\* C8: for W > max_tokens and 0 <= overlap < max_tokens, window k (from 0)
\* is the words from k * (max_tokens - overlap) on; every window but the
\* last has exactly max_tokens words, the last at most max_tokens, and there
\* are ceil((W - overlap) / (max_tokens - overlap)) windows.
C8_WindowLayout ==
    (pc \in {"window", "split_ret", "done"} /\ ValidConfig /\ n > max_tokens) =>
        LET step == max_tokens - overlap
        IN /\ \A k \in 1..Len(chunks) :
                Split(chunks[k]) =
                    SubSeq(Split(text), (k - 1) * step + 1,
                           Min((k - 1) * step + max_tokens, Len(Split(text))))
           /\ pc = "done" =>
                /\ ret = chunks
                /\ Len(ret) = CeilDiv(Len(Split(text)) - overlap, step)
                /\ \A k \in 1..(Len(ret) - 1) : Len(Split(ret[k])) = max_tokens
                /\ Len(Split(Last(ret))) <= max_tokens

C8_Witness ==
    /\ pc = "done" /\ ValidConfig /\ n > max_tokens
    /\ overlap > 0 /\ Len(ret) >= 3
    /\ Len(Split(Last(ret))) < max_tokens

\* C9: for W > max_tokens and 0 <= overlap < max_tokens, each window after
\* the first begins with the last `overlap` words of the window before it
\* and adds at least one word; the first window followed by the later ones
\* without their first `overlap` words is the text's word sequence.
C9_OverlapRejoin ==
    (pc = "done" /\ ValidConfig /\ n > max_tokens) =>
        /\ \A k \in 2..Len(ret) :
              LET prev == Split(ret[k - 1])
                  cur == Split(ret[k])
              IN /\ Len(cur) > overlap
                 /\ SubSeq(cur, 1, overlap)
                      = SubSeq(prev, Len(prev) - overlap + 1, Len(prev))
        /\ Rejoin(ret, 1, overlap) = Split(text)

C9_Witness ==
    /\ pc = "done" /\ ValidConfig /\ n > max_tokens
    /\ overlap >= 2 /\ Len(ret) >= 3

\* C10: for 0 <= overlap < max_tokens the windowing loop ends and the call
\* returns, and when the text was windowed the last window ends with the
\* last word of the text.
C10_Terminates ==
    /\ ValidConfig ~> (pc = "done")
    /\ []((pc = "done" /\ ValidConfig /\ n > max_tokens) =>
            (ret # <<>> /\ Last(Split(Last(ret))) = Last(Split(text))))

C10_Witness ==
    /\ pc = "done" /\ ValidConfig /\ n > max_tokens /\ overlap > 0
    /\ Len(ret) >= 3
    /\ Last(Split(Last(ret))) = Last(Split(text))
    /\ Len(Split(Last(ret))) < max_tokens

\* C11: a text of at most max_tokens words comes back as the one-element
\* list holding the text itself, spacing untouched, whatever the overlap.
C11_ShortTextUnchanged ==
    (pc \in {"split_ret", "done"} /\ Len(Split(text)) <= max_tokens) =>
        ret = <<text>>

C11_Witness ==
    /\ pc = "done"
    /\ Len(Split(text)) = 2 /\ max_tokens = 2 /\ overlap >= max_tokens
    /\ text # Join(Split(text), <<" ">>)
    /\ ret = <<text>>

\* C12: a pass of the merge loop over a section with fewer than min_tokens
\* words that has a successor rewrites the successor (content: current,
\* blank line, successor; heading: current " + " successor) and appends
\* nothing to the output; a pass over a section with at least min_tokens
\* words appends it as it stands and rewrites nothing.
C12_FoldStep ==
    [][(pc = "merge" /\ i < Len(sections) /\ i' = i + 1) =>
         LET cur == sections[i + 1]
         IN /\ (WordCount(cur.content) < min_tokens /\ i + 2 <= Len(sections)) =>
                 /\ sections'[i + 2].content =
                       cur.content \o BlankLine \o sections[i + 2].content
                 /\ sections'[i + 2].heading =
                       cur.heading \o Plus \o sections[i + 2].heading
                 /\ merged' = merged
            /\ WordCount(cur.content) >= min_tokens =>
                 /\ merged' = Append(merged, cur)
                 /\ sections' = sections]_vars

C12_Witness ==
    /\ pc = "done" /\ entry = "merge_sections_below_min_tokens"
    /\ Len(sections0) = 3 /\ Len(ret) = 2
    /\ sections # sections0
    /\ WordCount(ret[1].content) = min_tokens
    /\ min_tokens > 0

\* the title the document's lines give: the trimmed text of the first line
\* that is ## and a space and the heading text, "Untitled Document" when
\* there is no such line
IsLevel2Line(l) == Len(l) >= 3 /\ l[1] = "#" /\ l[2] = "#" /\ l[3] = " "

TitleOfLines(ls) ==
    IF \E k \in 1..Len(ls) : IsLevel2Line(ls[k])
    THEN LET k == SetMin({j \in 1..Len(ls) : IsLevel2Line(ls[j])})
         IN Strip(SubSeq(ls[k], 3, Len(ls[k])))
    ELSE UntitledDocument

\* C13: every chunk of a call carries the title of the document: the
\* trimmed text of the first level-2 heading line of the raw Markdown, or
\* "Untitled Document" when it has none.
C13_DocTitleOfFirstLevel2Line ==
    \A k \in 1..Len(all_chunks) :
        all_chunks[k].doc_title = TitleOfLines(Lines(markdown))

\* C13 on documents in which no ## stands alone on its line
C13_DocTitleWithoutMarkers ==
    (\A k \in 1..Len(Lines(markdown)) : ~IsMarkerLine(Lines(markdown)[k])) =>
        C13_DocTitleOfFirstLevel2Line

\* a document without a line that begins with 2 to 6 # followed by white
\* space or by the end of the line
NoHeadingLine(s) ==
    \A k \in 1..Len(Lines(s)) :
        ~IsHeadingLine(Lines(s)[k]) /\ ~IsMarkerLine(Lines(s)[k])

C15_NoEmptyChunk ==
    (ValidConfig /\ pc # "chunk_markdown") =>
        /\ \A k \in 1..Len(all_chunks) : Strip(all_chunks[k].content) # <<>>
        /\ chunk_id = Len(all_chunks) + 1
        /\ pc = "done" => \A k \in 1..Len(ret) : Strip(ret[k].content) # <<>>

C15_Witness ==
    /\ pc = "done" /\ ValidConfig
    /\ Len(ret) >= 2
    /\ \E j \in 1..Len(blocks) : Strip(blocks[j]) = <<>>
    /\ \E j \in 1..Len(blocks) : IsProtected(Strip(blocks[j]))

\* the calls of the model return what the functions as values give
ReturnsTheValue ==
    (pc = "done" /\ ValidConfig) =>
        CASE entry = "chunk_markdown" ->
               ret = ChunkMarkdown(markdown, max_tokens, overlap, min_tokens)
          [] entry = "split_with_overlap" ->
               ret = SplitWithOverlap(text, max_tokens, overlap)
          [] entry = "merge_sections_below_min_tokens" ->
               ret = MergeSections(sections0, min_tokens)
          [] OTHER -> TRUE

\* C16: each of the calls running side by side returns what a call alone
\* on its document returns, its chunk ids 1..N for its own N.
C16_ConcurrentCallsIndependent ==
    \A c \in Calls :
        calls[c].pc = "done" =>
            /\ calls[c].ret = ChunkMarkdown(calls[c].markdown, max_tokens,
                                            overlap, min_tokens)
            /\ \A k \in 1..Len(calls[c].ret) : calls[c].ret[k].chunk_id = k

C16_Witness ==
    /\ calls[1].pc = "done" /\ Len(calls[1].ret) >= 2
    /\ calls[2].pc = "blocks"
    /\ frames[2].all_chunks # <<>>
    /\ frames[2].sections # parse_markdown_sections(calls[2].markdown)

\* the windows of a prose block by their layout: window k (from 1) holds
\* the words from (k - 1) * (mx - ov) on, at most mx of them
WindowsByLayout(t, mx, ov) ==
    LET ws == Split(t)
        step == mx - ov
    IN IF Len(ws) <= mx THEN <<t>>
       ELSE [k \in 1..CeilDiv(Len(ws) - ov, step) |->
               Join(SubSeq(ws, (k - 1) * step + 1,
                           Min((k - 1) * step + mx, Len(ws))), <<" ">>)]

\* section and content of the chunks a list of merged sections gives:
\* section after section, block after block, a protected block once and
\* whole, a prose block window after window
EntriesOfBlock(section, raw) ==
    LET block == Strip(raw)
        bodies == IF block = <<>> THEN <<>>
                  ELSE IF IsProtected(block) THEN <<block>>
                  ELSE WindowsByLayout(block, max_tokens, overlap)
    IN [k \in 1..Len(bodies) |->
          [section |-> section.heading, content |-> bodies[k]]]

EntriesOfSection(section) ==
    LET bs == ReSplit(section.content)
        upto[k \in 0..Len(bs)] ==
          IF k = 0 THEN <<>> ELSE upto[k - 1] \o EntriesOfBlock(section, bs[k])
    IN upto[Len(bs)]

EntriesOfSections(secs) ==
    LET upto[k \in 0..Len(secs)] ==
          IF k = 0 THEN <<>> ELSE upto[k - 1] \o EntriesOfSection(secs[k])
    IN upto[Len(secs)]

EntriesOf(cs) ==
    [k \in 1..Len(cs) |-> [section |-> cs[k].section, content |-> cs[k].content]]

\* C17: the chunks come section by section in merged-section order, within
\* a section block by block, within a prose block window by window; each
\* carries the heading of its merged section; a protected block is one
\* chunk, a prose block one chunk for each window.
C17_EmissionOrder ==
    (ValidConfig /\ entry = "chunk_markdown") =>
        /\ pc = "sections" =>
              EntriesOf(all_chunks) = EntriesOfSections(SubSeq(sections, 1, sec))
        /\ pc = "done" => EntriesOf(ret) = EntriesOfSections(sections)

C17_Witness ==
    /\ pc = "done" /\ ValidConfig
    /\ Len(sections) >= 2 /\ Len(ret) >= 3
    /\ ret[1].section = sections[1].heading
    /\ ret[Len(ret)].section = sections[Len(sections)].heading
    /\ ret[1].section # ret[Len(ret)].section
    /\ \E k \in 1..Len(ret) : IsProtected(ret[k].content)
    /\ \E k \in 1..Len(sections) : Len(sections[k].heading) > 1

\* C18: in the list the merge returns every section but the last has at
\* least min_tokens words; so has every section already put out while the
\* loop runs and sections are still to come.
C18_OnlyLastMayBeShort ==
    entry = "merge_sections_below_min_tokens" =>
        /\ pc = "merge" =>
              \A k \in 1..Len(merged) :
                  (k < Len(merged) \/ i < Len(sections)) =>
                      WordCount(merged[k].content) >= min_tokens
        /\ pc = "done" =>
              \A k \in 1..(Len(ret) - 1) :
                  WordCount(ret[k].content) >= min_tokens

C18_Witness ==
    /\ pc = "done" /\ entry = "merge_sections_below_min_tokens"
    /\ Len(sections0) = 3 /\ Len(ret) = 2
    /\ WordCount(sections0[1].content) < min_tokens
    /\ WordCount(ret[1].content) >= min_tokens
    /\ WordCount(ret[2].content) < min_tokens

\* the headings a merged heading was made of
HeadingNames(h) == SelectSeq(Split(h), LAMBDA w : w # <<"+">>)

HeadingsOf(secs) ==
    LET upto[k \in 0..Len(secs)] ==
          IF k = 0 THEN <<>> ELSE upto[k - 1] \o HeadingNames(secs[k].heading)
    IN upto[Len(secs)]

EndsWith(s, suffix) ==
    Len(s) >= Len(suffix) /\ SubSeq(s, Len(s) - Len(suffix) + 1, Len(s)) = suffix

C20_IdsUniqueInCollection ==
    \A j, k \in 1..Len(collection_ids) :
        j # k => collection_ids[j] # collection_ids[k]

====
